---- MODULE Spec2Model ----
(***************************************************************************)
(* Model of src/main/geo/generate/python/utilsymbolic.py: the text         *)
(* rewriting functions expandPower, extractVarEq, simplifyExpanded and the *)
(* pipeline printData runs over them.                                      *)
(*                                                                         *)
(* Python strings are TLA+ strings; Python's 0-based indices are kept in   *)
(* Find, everything else is 1-based.  A raised exception is the value of   *)
(* the operator that raised it (IndexError, ValueError, RecursionError).   *)
(***************************************************************************)
EXTENDS Integers, Sequences, FiniteSets, TLC

VARIABLES
  pc,          \* position of the running call
  term,        \* argument of a direct expandPower call
  expression,  \* str(expression.expand()) handed to extractVarEq
  key,         \* key of extractVarEq
  var,         \* extractVarEq's list `var` (before that, the list `s`)
  ret,         \* value returned by expandPower / extractVarEq
  input,       \* argument of the outermost simplifyExpanded call
  stack,       \* activation records of simplifyExpanded, innermost last
  result       \* value (or exception) the outermost simplifyExpanded ended with

vars == <<pc, term, expression, key, var, ret, input, stack, result>>

----------------------------------------------------------------------------
(* Exceptions *)

IndexError == "<IndexError>"
ValueError == "<ValueError>"
RecursionError == "<RecursionError>"

IsError(r) == r \in {IndexError, ValueError, RecursionError}

----------------------------------------------------------------------------
(* Python string primitives *)

Ch(text, i) == SubSeq(text, i, i)

Min(S) == CHOOSE m \in S : \A n \in S : m <= n

\* text.find(s): 0-based index of the first occurrence, -1 when absent
Find(text, s) ==
  LET hits == {i \in 0..(Len(text) - Len(s)) : SubSeq(text, i + 1, i + Len(s)) = s}
  IN  IF hits = {} THEN -1 ELSE Min(hits)

\* s in text
Contains(text, s) == Find(text, s) # -1

\* text.replace(old, new), old non-empty
RECURSIVE Replace(_, _, _)
Replace(text, old, new) ==
  LET i == Find(text, old)
  IN  IF i = -1 THEN text
      ELSE SubSeq(text, 1, i) \o new
             \o Replace(SubSeq(text, i + Len(old) + 1, Len(text)), old, new)

\* text.split(sep), sep one character
RECURSIVE Split(_, _)
Split(text, sep) ==
  LET i == Find(text, sep)
  IN  IF i = -1 THEN <<text>>
      ELSE <<SubSeq(text, 1, i)>> \o Split(SubSeq(text, i + 2, Len(text)), sep)

Digits == "0123456789"

\* c.isdigit() for a one-character string
IsDigit(c) == Len(c) = 1 /\ Contains(Digits, c)

\* int(c) for a one-character digit string
IntOf(c) == Find(Digits, c)

----------------------------------------------------------------------------
(* expandPower *)

\* expanded = var; for i in range(n-1): expanded += '*'+var
RECURSIVE RepeatVar(_, _)
RepeatVar(v, n) == IF n <= 1 THEN v ELSE RepeatVar(v, n - 1) \o "*" \o v

\* one iteration of `for s in l`: the text appended to expression
ExpandFactor(s) ==
  IF Len(s) >= 3 /\ Ch(s, Len(s) - 1) = "^"
  THEN IF ~IsDigit(Ch(s, Len(s))) THEN ValueError
       ELSE RepeatVar(SubSeq(s, 1, Len(s) - 2), IntOf(Ch(s, Len(s)))) \o "*"
  ELSE s \o "*"

RECURSIVE ExpandFactors(_)
ExpandFactors(l) ==
  IF l = <<>> THEN ""
  ELSE LET h == ExpandFactor(Head(l))
           t == ExpandFactors(Tail(l))
       IN  IF h = ValueError \/ t = ValueError THEN ValueError ELSE h \o t

expandPower_signInFactor(e) ==
  LET l == Split(e, "*")
      body == ExpandFactors(l)
  IN  IF l[1] = "" THEN IndexError
      ELSE IF body = ValueError THEN ValueError
      ELSE SubSeq(body, 1, Len(body) - 1)

expandPower(e) ==
  LET l == Split(e, "*")
  IN  IF l[1] = "" THEN IndexError
      ELSE LET neg == Ch(l[1], 1) = "-"
               l2 == IF neg THEN [l EXCEPT ![1] = Tail(l[1])] ELSE l
               body == ExpandFactors(l2)
               whole == (IF neg THEN "-" ELSE "") \o body
           IN  IF body = ValueError THEN ValueError
               ELSE SubSeq(whole, 1, Len(whole) - 1)

----------------------------------------------------------------------------
(* extractVarEq *)

\* chars = set('xyz'); any(c in chars for c in w)
AnyReserved(w) == \E i \in 1..Len(w) : Ch(w, i) \in {"x", "y", "z"}

\* s = expression.replace('- ','-').split(' ')
SplitTerms(text) == Split(Replace(text, "- ", "-"), " ")

\* w[0:w.find(key)] + w[w.find(key)+len(key):]
RemoveKey(w, k) ==
  SubSeq(w, 1, Find(w, k)) \o SubSeq(w, Find(w, k) + Len(k) + 1, Len(w))

\* the list comprehension building `var` from `s`
SelectTerms(s, k) ==
  IF Len(k) = 0
  THEN SelectSeq(s, LAMBDA w : Len(w) # 1 /\ ~AnyReserved(w))
  ELSE LET found == SelectSeq(s, LAMBDA w : Find(w, k) # -1)
       IN  [i \in DOMAIN found |-> RemoveKey(found[i], k)]

\* "Handle the case where the key was not found"
NotFound_never(v) == FALSE

NotFound(v) == Len(v) = 0

\* "Fix problems left by stripping away the key", for one entry of var
CleanTerm(w0) ==
  LET w == Replace(w0, "-*", "-")
  IN  IF Len(w) = 0 THEN "1"
      ELSE IF Len(w) = 1 /\ Ch(w, 1) = "-" THEN "-1"
      ELSE IF Ch(w, Len(w)) = "*" THEN SubSeq(w, 1, Len(w) - 1)
      ELSE IF Ch(w, 1) = "*" THEN Tail(w)
      ELSE w

\* "construct a string which can be compiled"
RECURSIVE reassembleRest(_)
reassembleRest(rest) ==
  IF rest = <<>> THEN ""
  ELSE LET w == Head(rest)
           t == reassembleRest(Tail(rest))
       IN  IF w = "" THEN IndexError
           ELSE IF t = IndexError THEN IndexError
           ELSE (IF Ch(w, 1) = "-" THEN " - " \o Tail(w) ELSE " + " \o w) \o t

reassemble(v) ==
  IF v = <<>> THEN IndexError
  ELSE IF reassembleRest(Tail(v)) = IndexError THEN IndexError
  ELSE v[1] \o reassembleRest(Tail(v))

\* the first exception raised while evaluating [expandPower(w) for w in var]
FirstError(seq) ==
  LET bad == {i \in DOMAIN seq : IsError(seq[i])}
  IN  seq[Min(bad)]

\* s = ... ; var = [...]                                      (lines 107-112)
ExtractSelect ==
  /\ pc = "extractVarEq"
  /\ var' = SelectTerms(SplitTerms(expression), key)
  /\ pc' = "selected"
  /\ UNCHANGED <<term, expression, key, ret, input, stack, result>>

\* if len(var) == 0: return ''                                (lines 115-116)
ExtractNotFound ==
  /\ pc = "selected"
  /\ NotFound(var)
  /\ ret' = ""
  /\ pc' = "returned"
  /\ UNCHANGED <<term, expression, key, var, input, stack, result>>

\* the replace and the fix-up loop                            (lines 119-124)
ExtractCleanup ==
  /\ pc = "selected"
  /\ ~NotFound(var)
  /\ var' = [i \in DOMAIN var |-> CleanTerm(var[i])]
  /\ pc' = "cleaned"
  /\ UNCHANGED <<term, expression, key, ret, input, stack, result>>

\* var = [expandPower(w) for w in var]                        (line 127)
ExtractExpandPower ==
  /\ pc = "cleaned"
  /\ LET e == [i \in DOMAIN var |-> expandPower(var[i])]
     IN  IF \E i \in DOMAIN e : IsError(e[i])
         THEN /\ pc' = "raised"
              /\ ret' = FirstError(e)
              /\ var' = var
         ELSE /\ pc' = "expanded"
              /\ var' = e
              /\ ret' = ret
  /\ UNCHANGED <<term, expression, key, input, stack, result>>

\* ret = var[0]; for w in var[1:]: ...; return ret            (lines 130-137)
ExtractReassemble ==
  /\ pc = "expanded"
  /\ ret' = reassemble(var)
  /\ pc' = IF IsError(reassemble(var)) THEN "raised" ELSE "returned"
  /\ UNCHANGED <<term, expression, key, var, input, stack, result>>

\* a direct call expandPower(term)
ExpandPowerCall ==
  /\ pc = "expandPower"
  /\ ret' = expandPower(term)
  /\ pc' = IF IsError(expandPower(term)) THEN "raised" ELSE "returned"
  /\ UNCHANGED <<term, expression, key, var, input, stack, result>>

----------------------------------------------------------------------------
(* simplifyExpanded *)

\* removeSubString(text, candidates)
RECURSIVE removeSubString(_, _)
removeSubString(text, candidates) ==
  IF candidates = <<>> THEN text
  ELSE LET s == Head(candidates)
           l == Len(s)
           i == Find(text, s)
       IN  IF i >= 0
           THEN IF Ch(s, 1) = "*" /\ Ch(s, l) = "*"
                THEN SubSeq(text, 1, i) \o "*" \o SubSeq(text, i + l + 1, Len(text))
                ELSE SubSeq(text, 1, i) \o SubSeq(text, i + l + 1, Len(text))
           ELSE removeSubString(text, Tail(candidates))

\* removeVariable(text, s)
removeVariable(text, s) ==
  removeSubString(text, <<"*" \o s \o "*", s \o "*", "*" \o s>>)

\* reconstruct(sequence)
RECURSIVE reconstructRest(_)
reconstructRest(rest) ==
  IF rest = <<>> THEN ""
  ELSE LET w == Head(rest)
           t == reconstructRest(Tail(rest))
       IN  IF w = "" THEN IndexError
           ELSE IF t = IndexError THEN IndexError
           ELSE (IF Ch(w, 1) = "-" THEN " - " \o Tail(w) ELSE " + " \o w) \o t

reconstruct(sequence) ==
  IF sequence = <<>> THEN IndexError
  ELSE IF reconstructRest(Tail(sequence)) = IndexError THEN IndexError
  ELSE sequence[1] \o reconstructRest(Tail(sequence))

\* s = input.replace('- ','-').split(' '); s = [w for w in s if len(w) > 1]
RetainedTerms(text) == SelectSeq(SplitTerms(text), LAMBDA w : Len(w) > 1)

\* vars = w.replace('-','').split('*')
TermVars(w) == Split(Replace(w, "-", ""), "*")

\* for v in vars: dict[v] += 1, or dict[v] = 1 for a new v
RECURSIVE CountVars(_, _)
CountVars(d, vs) ==
  IF vs = <<>> THEN d
  ELSE LET v == Head(vs)
       IN  CountVars(IF v \in DOMAIN d THEN [d EXCEPT ![v] = @ + 1]
                     ELSE d @@ (v :> 1), Tail(vs))

Range(seq) == {seq[i] : i \in DOMAIN seq}

\* a frequency map that counts a term once for each distinct factor in it
FrequencyDict_perTerm(s) ==
  [v \in UNION {Range(TermVars(s[i])) : i \in DOMAIN s} |->
     Cardinality({i \in DOMAIN s : v \in Range(TermVars(s[i]))})]

\* "Find the frequency of each variable": the dict after `for w in s`
RECURSIVE FrequencyDict(_)
FrequencyDict(s) ==
  IF s = <<>> THEN <<>>
  ELSE CountVars(FrequencyDict(SubSeq(s, 1, Len(s) - 1)), TermVars(s[Len(s)]))

\* the values bestVar can end with: dict.items() has no specified order, and
\* the strict `v > bestCount` keeps the first key seen with the highest count
BestVars(d) ==
  IF DOMAIN d = {} THEN {""}
  ELSE {k \in DOMAIN d : \A j \in DOMAIN d : d[j] <= d[k]}

\* an activation record of simplifyExpanded
Frame(text) ==
  [input |-> text, at |-> "enter", s |-> <<>>, bestVar |-> "",
   include |-> <<>>, removed |-> <<>>, exclude |-> <<>>, output |-> ""]

Top == stack[Len(stack)]

SetTop(f) == [stack EXCEPT ![Len(stack)] = f]

\* sys.getrecursionlimit(), scaled down
MaxDepth == 8

\* if not len(input): return ''                               (line 150)
SimplifyEmpty ==
  /\ pc = "simplifyExpanded"
  /\ Top.at = "enter"
  /\ Len(Top.input) = 0
  /\ stack' = SetTop([Top EXCEPT !.at = "return", !.output = ""])
  /\ UNCHANGED <<pc, term, expression, key, var, ret, input, result>>

\* split, count, choose bestVar, partition, strip bestVar     (lines 174-204)
SimplifyFactor ==
  /\ pc = "simplifyExpanded"
  /\ Top.at = "enter"
  /\ Len(Top.input) # 0
  /\ LET s == RetainedTerms(Top.input)
     IN  \E bestVar \in BestVars(FrequencyDict(s)) :
           LET include == SelectSeq(s, LAMBDA w : Contains(w, bestVar))
               exclude == SelectSeq(s, LAMBDA w : ~Contains(w, bestVar))
           IN  stack' = SetTop([Top EXCEPT
                 !.at = "factored", !.s = s, !.bestVar = bestVar,
                 !.include = include,
                 !.removed = [i \in DOMAIN include |-> removeVariable(include[i], bestVar)],
                 !.exclude = exclude,
                 !.output = bestVar \o "*( "])
  /\ UNCHANGED <<pc, term, expression, key, var, ret, input, result>>

\* bestVar[0] on an empty bestVar                             (line 205)
SimplifyNoFactor ==
  /\ pc = "simplifyExpanded"
  /\ Top.at = "factored"
  /\ Top.bestVar = ""
  /\ pc' = "raised"
  /\ result' = IndexError
  /\ UNCHANGED <<term, expression, key, var, ret, input, stack>>

\* output += simplifyExpanded(reconstruct(include))           (line 205)
SimplifyIncludeCall ==
  /\ pc = "simplifyExpanded"
  /\ Top.at = "factored"
  /\ Top.bestVar # ""
  /\ IsDigit(Ch(Top.bestVar, 1))
  /\ IF IsError(reconstruct(Top.removed))
     THEN pc' = "raised" /\ result' = reconstruct(Top.removed) /\ stack' = stack
     ELSE IF Len(stack) >= MaxDepth
     THEN pc' = "raised" /\ result' = RecursionError /\ stack' = stack
     ELSE /\ stack' = Append(SetTop([Top EXCEPT !.at = "include"]),
                             Frame(reconstruct(Top.removed)))
          /\ UNCHANGED <<pc, result>>
  /\ UNCHANGED <<term, expression, key, var, ret, input>>

\* output += reconstruct(include); output += ' )'             (lines 206-207)
SimplifyIncludePlain ==
  /\ pc = "simplifyExpanded"
  /\ Top.at = "factored"
  /\ Top.bestVar # ""
  /\ ~IsDigit(Ch(Top.bestVar, 1))
  /\ IF IsError(reconstruct(Top.removed))
     THEN pc' = "raised" /\ result' = reconstruct(Top.removed) /\ stack' = stack
     ELSE /\ stack' = SetTop([Top EXCEPT !.at = "bracketed",
                   !.output = @ \o reconstruct(Top.removed) \o " )"])
          /\ UNCHANGED <<pc, result>>
  /\ UNCHANGED <<term, expression, key, var, ret, input>>

\* if len(exclude): output += ' + '+simplifyExpanded(reconstruct(exclude))
SimplifyExcludeCall ==
  /\ pc = "simplifyExpanded"
  /\ Top.at = "bracketed"
  /\ Len(Top.exclude) # 0
  /\ IF IsError(reconstruct(Top.exclude))
     THEN pc' = "raised" /\ result' = reconstruct(Top.exclude) /\ stack' = stack
     ELSE IF Len(stack) >= MaxDepth
     THEN pc' = "raised" /\ result' = RecursionError /\ stack' = stack
     ELSE /\ stack' = Append(SetTop([Top EXCEPT !.at = "exclude"]),
                             Frame(reconstruct(Top.exclude)))
          /\ UNCHANGED <<pc, result>>
  /\ UNCHANGED <<term, expression, key, var, ret, input>>

\* no exclude group: fall through to `return output`          (lines 209, 212)
SimplifyNoExclude ==
  /\ pc = "simplifyExpanded"
  /\ Top.at = "bracketed"
  /\ Len(Top.exclude) = 0
  /\ stack' = SetTop([Top EXCEPT !.at = "return"])
  /\ UNCHANGED <<pc, term, expression, key, var, ret, input, result>>

\* a return: the caller appends the value where it made the call
\* (' )' after the include call, line 207; ' + ' before the exclude call's
\* value, line 210), the outermost call hands it to its caller
SimplifyReturn ==
  /\ pc = "simplifyExpanded"
  /\ Top.at = "return"
  /\ IF Len(stack) = 1
     THEN /\ result' = Top.output
          /\ pc' = "finished"
          /\ stack' = <<>>
     ELSE LET caller == stack[Len(stack) - 1]
              callers == SubSeq(stack, 1, Len(stack) - 2)
          IN  /\ stack' = callers \o
                   << IF caller.at = "include"
                      THEN [caller EXCEPT !.at = "bracketed",
                                          !.output = @ \o Top.output \o " )"]
                      ELSE [caller EXCEPT !.at = "return",
                                          !.output = @ \o " + " \o Top.output] >>
              /\ UNCHANGED <<pc, result>>
  /\ UNCHANGED <<term, expression, key, var, ret, input>>

\* printData: simplifyExpanded(extractVarEq(eq,k))            (line 144)
PrintDataSimplify ==
  /\ pc = "returned"
  /\ input' = ret
  /\ stack' = <<Frame(ret)>>
  /\ pc' = "simplifyExpanded"
  /\ UNCHANGED <<term, expression, key, var, ret, result>>

Simplify ==
  \/ SimplifyEmpty
  \/ SimplifyFactor
  \/ SimplifyNoFactor
  \/ SimplifyIncludeCall
  \/ SimplifyIncludePlain
  \/ SimplifyExcludeCall
  \/ SimplifyNoExclude
  \/ SimplifyReturn

----------------------------------------------------------------------------
(* Inputs *)

\* all sequences over S of length lo..hi
SeqsOf(S, lo, hi) == UNION {[1..n -> S] : n \in lo..hi}

RECURSIVE Join(_, _)
Join(seq, sep) ==
  IF seq = <<>> THEN ""
  ELSE IF Len(seq) = 1 THEN seq[1]
  ELSE seq[1] \o sep \o Join(Tail(seq), sep)

\* the text of an expanded sum as the algebra system prints it:
\* "t1 + t2 - t3", a leading '-' attached to the first term, "0" for no term
RECURSIVE ExpandedRest(_)
ExpandedRest(terms) ==
  IF terms = <<>> THEN ""
  ELSE (IF Ch(Head(terms), 1) = "-" THEN " - " \o Tail(Head(terms))
        ELSE " + " \o Head(terms)) \o ExpandedRest(Tail(terms))

ExpandedStr(terms) ==
  IF terms = <<>> THEN "0" ELSE terms[1] \o ExpandedRest(Tail(terms))

Signs == {"", "-"}

\* terms handed to expandPower: sign, plain factors, one v^k, plain factors
MaxOther == 1
PlainFactors == {"a", "12"}
PowerBases == {"x", "a02"}
Exponents == 1..9

PowerShapes ==
  [neg : Signs, pre : SeqsOf(PlainFactors, 0, MaxOther), v : PowerBases,
   k : Exponents, post : SeqsOf(PlainFactors, 0, MaxOther)]

PowerTerm(sh) ==
  sh.neg \o Join(sh.pre \o <<sh.v \o "^" \o Ch(Digits, sh.k + 1)>> \o sh.post, "*")

\* expressions handed to extractVarEq
MaxFactors == 3
MaxTerms == 2
ExtractFactors == {"a", "x"}
ExtractKeys == {"x", ""}
DocExample == "x*a*b + y*a*a*b - c*x*d"

\* negated terms and terms with a power
OtherTerms == {"-x", "-a", "-x*a", "-a*a*x", "b^2*x", "-a*x^2"}

ExtractTerms ==
  {Join(fs, "*") : fs \in SeqsOf(ExtractFactors, 1, MaxFactors)} \cup OtherTerms

\* sums handed to simplifyExpanded directly
MaxSummands == 3
Summands ==
  {"a*b", "a*c", "d", "-b", "12", "2*c", "a02*b", "a*a*a", "a*b*c", "a*b*d"}

SimplifyInputs == {ExpandedStr(ts) : ts \in SeqsOf(Summands, 1, MaxSummands)} \cup {""}

ExtractExpressions ==
  {ExpandedStr(ts) : ts \in SeqsOf(ExtractTerms, 0, MaxTerms)} \cup {DocExample}

----------------------------------------------------------------------------
(* Specifications *)

InitExpand ==
  /\ pc = "expandPower"
  /\ term \in {PowerTerm(sh) : sh \in PowerShapes}
  /\ expression = "" /\ key = "" /\ var = <<>> /\ ret = ""
  /\ input = "" /\ stack = <<>> /\ result = ""

NextExpand == ExpandPowerCall

SpecExpand == InitExpand /\ [][NextExpand]_vars

InitExtract ==
  /\ pc = "extractVarEq"
  /\ expression \in ExtractExpressions
  /\ key \in ExtractKeys
  /\ term = "" /\ var = <<>> /\ ret = ""
  /\ input = "" /\ stack = <<>> /\ result = ""

NextExtract ==
  \/ ExtractSelect
  \/ ExtractNotFound
  \/ ExtractCleanup
  \/ ExtractExpandPower
  \/ ExtractReassemble

SpecExtract == InitExtract /\ [][NextExtract]_vars

InitSimplify ==
  /\ pc = "simplifyExpanded"
  /\ input \in SimplifyInputs
  /\ stack = <<Frame(input)>>
  /\ term = "" /\ expression = "" /\ key = "" /\ var = <<>> /\ ret = ""
  /\ result = ""

NextSimplify == Simplify

SpecSimplify == InitSimplify /\ [][NextSimplify]_vars

\* printData's loop body for one (eq, k)
Init == InitExtract

Next ==
  \/ NextExtract
  \/ PrintDataSimplify
  \/ Simplify

Spec == Init /\ [][Next]_vars

----------------------------------------------------------------------------
(* Vocabulary of the properties: terms, factors, polynomials *)

StartsWith(text, p) == Len(text) >= Len(p) /\ SubSeq(text, 1, Len(p)) = p

Sign(w) == IF Ch(w, 1) = "-" THEN "-" ELSE ""

Unsigned(w) == IF Ch(w, 1) = "-" THEN Tail(w) ELSE w

\* the factor tokens of a term, in order
Factors(w) == Split(Unsigned(w), "*")

HasFactor(w, f) == \E i \in DOMAIN Factors(w) : Factors(w)[i] = f

\* seq without its first element equal to f
RECURSIVE WithoutFirst(_, _)
WithoutFirst(seq, f) ==
  IF seq = <<>> THEN <<>>
  ELSE IF Head(seq) = f THEN Tail(seq)
  ELSE <<Head(seq)>> \o WithoutFirst(Tail(seq), f)

\* the term w with one occurrence of the factor f taken out
WithoutFactor(w, f) == Sign(w) \o Join(WithoutFirst(Factors(w), f), "*")

\* the multiset of the elements of a sequence
BagOf(seq) == [e \in Range(seq) |-> Cardinality({i \in DOMAIN seq : seq[i] = e})]

\* a signed monomial: its sign and the multiset of its factors
Monomial(w, negated) ==
  [neg |-> (negated # (Sign(w) = "-")), fac |-> BagOf(Factors(w))]

TimesFactor(m, f, negated) ==
  [neg |-> (m.neg # negated),
   fac |-> IF f \in DOMAIN m.fac THEN [m.fac EXCEPT ![f] = @ + 1]
           ELSE m.fac @@ (f :> 1)]

\* multiplies out the text of a sum whose items are terms or groups
\* `f*( sum )`, read from token i on; yields the monomials and the position
\* after the sum
RECURSIVE MultiplyOut(_, _, _, _)
MultiplyOut(toks, i, negated, acc) ==
  IF i > Len(toks) THEN [poly |-> acc, pos |-> i]
  ELSE LET tk == toks[i]
       IN  IF tk = ")" THEN [poly |-> acc, pos |-> i + 1]
           ELSE IF tk = "+" THEN MultiplyOut(toks, i + 1, FALSE, acc)
           ELSE IF tk = "-" THEN MultiplyOut(toks, i + 1, TRUE, acc)
           ELSE IF tk = "" THEN MultiplyOut(toks, i + 1, negated, acc)
           ELSE IF Len(tk) > 2 /\ SubSeq(tk, Len(tk) - 1, Len(tk)) = "*("
           THEN LET inner == MultiplyOut(toks, i + 1, FALSE, <<>>)
                    f == SubSeq(tk, 1, Len(tk) - 2)
                IN  MultiplyOut(toks, inner.pos, FALSE,
                      acc \o [j \in DOMAIN inner.poly |->
                                TimesFactor(inner.poly[j], f, negated)])
           ELSE MultiplyOut(toks, i + 1, FALSE, acc \o <<Monomial(tk, negated)>>)

\* the multiset of signed monomials a text denotes
Polynomial(text) == BagOf(MultiplyOut(Split(text, " "), 1, FALSE, <<>>).poly)

\* activation records of simplifyExpanded that are past the choice of bestVar
Factored == {i \in DOMAIN stack : stack[i].at # "enter"}

\* the activation record that has just chosen bestVar, if any
Choosing == {i \in DOMAIN stack : stack[i].at = "factored"}

RECURSIVE Sum(_)
Sum(seq) == IF seq = <<>> THEN 0 ELSE Head(seq) + Sum(Tail(seq))

\* number of times f is a factor, over all terms of s
Occurrences(f, s) ==
  Sum([i \in DOMAIN s |->
         Cardinality({j \in DOMAIN Factors(s[i]) : Factors(s[i])[j] = f})])

\* number of terms of s that have f as a factor
TermsWith(f, s) == Cardinality({i \in DOMAIN s : HasFactor(s[i], f)})

AllFactors(s) == UNION {Range(Factors(s[i])) : i \in DOMAIN s}

----------------------------------------------------------------------------
(* Properties *)

\* C1: the string simplifyExpanded returns, multiplied out, denotes the same
\* multiset of signed monomials as its input; no term is lost, added or changed.
C1_SameMonomials ==
  pc = "finished" => Polynomial(result) = Polynomial(input)

\* the additive terms of the expression given to extractVarEq
InputTerms == SelectSeq(SplitTerms(expression), LAMBDA w : w # "+")

\* every term that contains the key has it as one whole factor among others,
\* and holds no power to expand
KeyIsWholeFactor ==
  \A i \in DOMAIN InputTerms :
    LET w == InputTerms[i]
    IN  Contains(w, key) =>
          /\ HasFactor(w, key)
          /\ Len(Factors(w)) > 1
          /\ ~Contains(w, "^")

\* C2: with a non-empty key that is a whole factor of the terms containing it,
\* extractVarEq returns the sum of those terms, each as its remaining factors
\* joined by single '*' with its sign kept (key first, interior or last), and
\* drops the terms without the key: x*a*b, y*a*a*b, -c*x*d give "a*b - c*d".
C2_KeyFactorTakenOut ==
  (pc = "returned" /\ key # "" /\ KeyIsWholeFactor
     /\ \E i \in DOMAIN InputTerms : HasFactor(InputTerms[i], key))
  => ret = ExpandedStr([i \in DOMAIN SelectSeq(InputTerms, LAMBDA w : HasFactor(w, key)) |->
                 WithoutFactor(SelectSeq(InputTerms, LAMBDA w : HasFactor(w, key))[i], key)])

\* C3: for a non-empty key the string extractVarEq returns never contains the key.
C3_KeyAbsentFromOutput ==
  (pc = "returned" /\ key # "") => ~Contains(ret, key)

\* number of factors over the terms a call of simplifyExpanded retains
TermSetSize(text) ==
  Sum([i \in DOMAIN RetainedTerms(text) |-> Len(Factors(RetainedTerms(text)[i]))])

\* C4: every recursive call of simplifyExpanded receives a strictly smaller
\* term set than its caller, so the recursion ends without exhausting the stack.
C4_EveryCallShrinks ==
  /\ \A i \in DOMAIN stack :
       i > 1 => TermSetSize(stack[i].input) < TermSetSize(stack[i - 1].input)
  /\ result # RecursionError

\* C5: simplifyExpanded(extractVarEq(expr, key)) never raises an error, whatever
\* string extractVarEq returned.
C5_PipelineNeverRaises ==
  ~(pc = "raised" /\ input = ret /\ IsError(result))

\* no additive term of the expression contains the key
KeyInNoTerm ==
  \A i \in DOMAIN SplitTerms(expression) : ~Contains(SplitTerms(expression)[i], key)

\* C6: when no term contains the non-empty key, extractVarEq returns the empty
\* string without raising, and never runs the cleanup, the power expansion or
\* the reassembly on the empty term list.
C6_KeyNotFoundReturnsEmpty ==
  (key # "" /\ KeyInNoTerm) =>
     /\ pc \in {"extractVarEq", "selected", "returned"}
     /\ (pc = "selected" => var = <<>>)
     /\ (pc = "returned" => ret = "" /\ var = <<>>)

C6_Witness ==
  /\ pc = "returned"
  /\ key = "x"
  /\ expression = "a*a - a"
  /\ ret = ""

\* C7: for a term with an optional leading '-' and one factor v^k, k in 1..9,
\* expandPower returns the term with that factor replaced by k copies of v
\* joined by '*', the other factors unchanged and in order, and the leading
\* '-' kept exactly when the input had it.
C7_PowerBecomesCopies ==
  /\ pc \in {"expandPower", "returned"}
  /\ \A sh \in PowerShapes :
       (pc = "returned" /\ term = PowerTerm(sh))
       => ret = sh.neg \o Join(sh.pre \o [i \in 1..sh.k |-> sh.v] \o sh.post, "*")

C7_Witness ==
  /\ pc = "returned"
  /\ term = "-a*x^3*12"
  /\ ret = "-a*x*x*x*12"

\* C8: the include group is exactly the terms that have the chosen factor as
\* one of their factor tokens, each with exactly one occurrence of that factor
\* removed and its other factors and sign unchanged; the other terms are the
\* exclude group, unaltered.
C8_IncludeIsTermsWithFactor ==
  \A i \in Factored :
    LET f == stack[i]
        with == SelectSeq(f.s, LAMBDA w : HasFactor(w, f.bestVar))
    IN  /\ f.include = with
        /\ f.exclude = SelectSeq(f.s, LAMBDA w : ~HasFactor(w, f.bestVar))
        /\ f.removed = [j \in DOMAIN with |-> WithoutFactor(with[j], f.bestVar)]

\* C9 (as stated): the chosen factor is contained in the largest number of
\* retained terms; a factor repeated inside one term counts once for it.
C9_ChosenIsInMostTerms ==
  \A i \in Choosing :
    \A f \in AllFactors(stack[i].s) :
      TermsWith(f, stack[i].s) <= TermsWith(stack[i].bestVar, stack[i].s)

\* C9 (amended): whenever a term is retained, the chosen factor is a factor
\* token with the largest number of occurrences over the retained terms, every
\* repetition inside one term counted; with no retained term it is empty.
C9_ChosenHasMostOccurrences ==
  \A i \in Choosing :
    LET s == stack[i].s
        bestVar == stack[i].bestVar
        most == Occurrences(bestVar, s)
    IN  IF s = <<>> THEN bestVar = ""
        ELSE /\ bestVar \in AllFactors(s)
             /\ \A f \in AllFactors(s) : Occurrences(f, s) <= most

C9_Witness ==
  \E i \in Choosing :
    /\ stack[i].s = <<"a*a*a", "a*b", "-b">>
    /\ stack[i].bestVar = "a"
    /\ Occurrences("b", stack[i].s) < Occurrences("a", stack[i].s)
    /\ TermsWith("a", stack[i].s) = TermsWith("b", stack[i].s)

\* C10: for every chosen factor the text inside the brackets of
\* `<factor>*( ... )` is the recursive simplification of the include terms
\* after removal, so when two or more of them share a factor the text is
\* itself of the form `<factor'>*( ... )`, a factor pulled out of them.
C10_BracketIsSimplified ==
  \A i \in DOMAIN stack :
    stack[i].at = "bracketed" =>
      LET f == stack[i]
          inner == SubSeq(f.output, Len(f.bestVar) + 4, Len(f.output) - 2)
          kept == RetainedTerms(reconstruct(f.removed))
      IN  (Len(kept) > 1 /\ \E g \in AllFactors(kept) : TermsWith(g, kept) = Len(kept))
          => \E g \in AllFactors(kept) : StartsWith(inner, g \o "*( ")

====
